---- MODULE Spec2Model ----
(***************************************************************************)
(* The p2p Switch of gohotstuff (package p2p): reactor registration,       *)
(* Start/bootstrap, the discovery loop (acceptRoutine), peer admission     *)
(* (handleStream inbound, connect/dialPeersAsync outbound), Broadcast,     *)
(* Send and Stop.  Each goroutine is a process with its own position; a    *)
(* step is one stretch of code between two points where another goroutine  *)
(* can observe or change the Switch.                                       *)
(***************************************************************************)
EXTENDS Integers, Sequences, FiniteSets, TLC

\* ------------------------------------------------------------------ bounds
MaxPeers == 3        \* Peer objects ever constructed
MaxInbound == 2      \* inbound streams ever handed to handleStream

Ids == {1, 2}        \* the remote identities
NoId == 0            \* the zero peer.ID that a failed peer.Decode yields
NoPeer == 0          \* no Peer object
Handles == 1..MaxPeers
Modules == {"consensus", "mempool"}
Reactors == {"r1", "r2"}
NoReactor == "none"
Channels == {1, 2}
Msgs == {"x", "y"}

\* A multiaddress string: the one of identity i is <<"addr", i>>,
\* "bad" does not parse, "noinfo" parses but names no identity.
Addr(i) == <<"addr", i>>
BadAddr == <<"bad", NoId>>
NoInfoAddr == <<"noinfo", NoId>>
BootStrapConfigs == {<<>>, <<BadAddr, NoInfoAddr, Addr(1)>>, <<Addr(1), Addr(2)>>}

VARIABLES
    reactor,      \* sw.reactor: Module -> reactor
    addRet,       \* the last AddReactor call: arguments and result
    cfgBootStrap, \* sw.cfg.BootStrap
    reachable,    \* the identities whose host accepts our host.Connect
    addrs,        \* sw.host.Peerstore(): the identities with a known address
    host,         \* sw.host is up and the stream handler is registered
    kdht,         \* sw.kdht is constructed
    rt,           \* sw.kdht.RoutingTable(): the identities it lists
    peers,        \* sw.peers: identity -> Peer object (NoPeer if absent)
    heap,         \* the Peer objects constructed so far
    startPc,      \* position of the Start() call
    startRet,     \* what Start() returned
    bsIdx,        \* bootstrap: index of the next configured address
    dial,         \* the connect/dialPeersAsync call in progress
    connRet,      \* what the last connect call returned, and for whom
    acceptPc,     \* position of the acceptRoutine goroutine
    passTodo,     \* acceptRoutine: identities of this tick still to visit
    stopPc,       \* position of the Stop() call
    stopRange,    \* Stop: when it was called, and its Range fan-out
    hs,           \* the handleStream goroutines
    bc,           \* the Broadcast call
    sendRes       \* the last Send call: arguments, per-peer sends, result

vars == <<reactor, addRet, cfgBootStrap, reachable, addrs, host, kdht, rt, peers,
          heap, startPc, startRet, bsIdx, dial, connRet, acceptPc,
          passTodo, stopPc, stopRange, hs, bc, sendRes>>

\* ------------------------------------------------------------ Peer, PeerSet
\* A Peer: its remote identity, running or stopped, and whether its stream
\* is still usable (what Validate reports).
NewPeerObj(i) == [id |-> i, state |-> "running", ok |-> TRUE]

Validate(p) == heap[p].ok

\* PeerSet.Find: the entry for the identity, or an error (NoPeer).
Find(i) == IF i \in Ids THEN peers[i] ELSE NoPeer

\* PeerSet.Add: the Peer becomes the entry for its identity.
Add(p, i) == [peers EXCEPT ![i] = p]

\* Peer.FlushStop on the heap.
FlushStop(h, p) == [h EXCEPT ![p].state = "stopped"]

\* The Peers a Range traversal visits: the current entries.
RangePeers == {peers[i] : i \in {j \in Ids : peers[j] # NoPeer}}

\* The results a Peer.Send can report: a stopped Peer or a dead stream
\* fails, a usable one succeeds or times out.
PeerSendResults(p) ==
    IF heap[p].state = "running" /\ heap[p].ok THEN {TRUE, FALSE} ELSE {FALSE}

\* peer.Decode answering with an identity for a string that names none (a
\* mutant of Decode).
DecodeAnyway(pr) == IF pr \in Ids THEN pr ELSE CHOOSE i \in Ids : TRUE

\* peer.Decode of the identity string.
Decode(pr) == IF pr \in Ids THEN pr ELSE NoId

IdleDial == [pc |-> "idle", id |-> NoId, caller |-> "none"]
IdleRange == [running |-> FALSE, snap |-> {}, todo |-> {}]
IdleHs == [pc |-> "idle", id |-> NoId]
IdleBc == [pc |-> "idle", ch |-> 1, msg |-> "x", snap |-> {}, todo |-> {},
           tried |-> {}, failed |-> {}]
NoSend == [pr |-> NoId, ch |-> 1, msg |-> "x", calls |-> {}, ret |-> "none"]
NoAdd == [mo |-> "none", f |-> NoReactor, ret |-> "none"]
NoConn == [caller |-> "none", id |-> NoId, ret |-> "none", dialed |-> "none",
           stream |-> "none"]

\* NewSwitch.
Init ==
    /\ reactor = [m \in Modules |-> NoReactor]
    /\ addRet = NoAdd
    /\ cfgBootStrap \in BootStrapConfigs
    /\ reachable \in SUBSET Ids
    /\ addrs = {}
    /\ host = FALSE
    /\ kdht = FALSE
    /\ rt = {}
    /\ peers = [i \in Ids |-> NoPeer]
    /\ heap = <<>>
    /\ startPc = "idle"
    /\ startRet = "none"
    /\ bsIdx = 1
    /\ dial = IdleDial
    /\ connRet = NoConn
    /\ acceptPc = "idle"
    /\ passTodo = {}
    /\ stopPc = "idle"
    /\ stopRange = IdleRange
    /\ hs = [h \in 1..MaxInbound |-> IdleHs]
    /\ bc = IdleBc
    /\ sendRes = NoSend

\* ---------------------------------------------------------------- AddReactor
\* AddReactor without the duplicate check (the mutant of AddReactor).
AddReactorOverwrite(mo, f) ==
    /\ reactor' = [reactor EXCEPT ![mo] = f]
    /\ addRet' = [mo |-> mo, f |-> f, ret |-> "nil"]
    /\ UNCHANGED <<cfgBootStrap, reachable, addrs, host, kdht, rt, peers, heap,
                   startPc, startRet, bsIdx, dial, connRet,
                   acceptPc, passTodo, stopPc, stopRange, hs, bc, sendRes>>

\* AddReactor(mo, f), the whole call under sw.mtx.
AddReactor(mo, f) ==
    /\ IF reactor[mo] # NoReactor
         THEN /\ addRet' = [mo |-> mo, f |-> f, ret |-> "err"]
              /\ UNCHANGED reactor
         ELSE /\ reactor' = [reactor EXCEPT ![mo] = f]
              /\ addRet' = [mo |-> mo, f |-> f, ret |-> "nil"]
    /\ UNCHANGED <<cfgBootStrap, reachable, addrs, host, kdht, rt, peers, heap,
                   startPc, startRet, bsIdx, dial, connRet,
                   acceptPc, passTodo, stopPc, stopRange, hs, bc, sendRes>>

\* --------------------------------------------------------------------- Start
\* Start returns early handing back the error: nothing else is touched.
StartReturnErr(e) ==
    /\ startPc' = "done"
    /\ startRet' = e
    /\ UNCHANGED <<rt, peers, heap, bsIdx, dial, connRet, acceptPc,
                   passTodo>>

\* Key decoding or unmarshalling fails.
StartKeyFail ==
    /\ startPc = "idle"
    /\ StartReturnErr("errKey")
    /\ UNCHANGED <<reactor, addRet, cfgBootStrap, reachable, addrs, host, kdht,
                   stopPc, stopRange, hs, bc, sendRes>>

\* libp2p.New fails.
StartHostFail ==
    /\ startPc = "idle"
    /\ StartReturnErr("errHost")
    /\ UNCHANGED <<reactor, addRet, cfgBootStrap, reachable, addrs, host, kdht,
                   stopPc, stopRange, hs, bc, sendRes>>

\* The host is up and sw.handleStream is its stream handler.
StartHostUp ==
    /\ startPc = "idle"
    /\ host' = TRUE
    /\ startPc' = "host"
    /\ UNCHANGED <<reactor, addRet, cfgBootStrap, reachable, addrs, kdht, rt, peers,
                   heap, startRet, bsIdx, dial, connRet, acceptPc,
                   passTodo, stopPc, stopRange, hs, bc, sendRes>>

\* dht.New fails.
StartDhtFail ==
    /\ startPc = "host"
    /\ StartReturnErr("errDht")
    /\ UNCHANGED <<reactor, addRet, cfgBootStrap, reachable, addrs, host, kdht,
                   stopPc, stopRange, hs, bc, sendRes>>

\* dht.New succeeds; bootstrap's kdht.Bootstrap fails and Start returns it.
StartKdhtBootstrapFail ==
    /\ startPc = "host"
    /\ kdht' = TRUE
    /\ StartReturnErr("errKdhtBootstrap")
    /\ UNCHANGED <<reactor, addRet, cfgBootStrap, reachable, addrs, host, stopPc,
                   stopRange, hs, bc, sendRes>>

\* dht.New and kdht.Bootstrap succeed: the first pass over the list begins.
StartDhtUp ==
    /\ startPc = "host"
    /\ kdht' = TRUE
    /\ startPc' = "bootstrap"
    /\ bsIdx' = 1
    /\ UNCHANGED <<reactor, addRet, cfgBootStrap, reachable, addrs, host, rt, peers,
                   heap, startRet, dial, connRet, acceptPc, passTodo, stopPc,
                   stopRange, hs, bc, sendRes>>

\* ------------------------------------------------- connect, dialPeersAsync
\* What a connect(multiAddr) call of caller for identity i returned (ret),
\* what its dialPeersAsync call returned if it made one (dialed), and what
\* became of the stream that call opened (stream).
ConnRet(caller, i, ret, dialed, stream) ==
    [caller |-> caller, id |-> i, ret |-> ret, dialed |-> dialed,
     stream |-> stream]

\* connect(multiAddr) up to dialPeersAsync's look at PeerSet: a parse, an
\* address-info or a host.Connect failure returns the error; a connected
\* identity has its address in the peerstore and enters the routing table;
\* a valid entry ends dialPeersAsync and the call with nil.
ConnectBegin(caller, addr) ==
    LET i == addr[2] IN
    IF addr[1] # "addr" \/ i \notin reachable
      THEN /\ connRet' = ConnRet(caller, i, "err", "none", "none")
           /\ UNCHANGED <<dial, rt, addrs>>
      ELSE /\ rt' = rt \cup {i}
           /\ addrs' = addrs \cup {i}
           /\ IF Find(i) # NoPeer /\ Validate(Find(i))
                THEN /\ connRet' = ConnRet(caller, i, "nil", "nil", "none")
                     /\ UNCHANGED dial
                ELSE /\ dial' = [pc |-> "stream", id |-> i, caller |-> caller]
                     /\ UNCHANGED connRet

\* dialPeersAsync without the RemovePeer call of its construction-failure
\* path (a mutant of DialPeer).
DialPeerKeepRoute ==
    /\ dial.pc = "stream"
    /\ \E outcome \in {"nostream", "nopeer", "ok"} :
         /\ outcome = "ok" => Len(heap) < MaxPeers
         /\ rt' = rt
         /\ IF outcome = "ok"
              THEN /\ heap' = Append(heap, NewPeerObj(dial.id))
                   /\ peers' = Add(Len(heap) + 1, dial.id)
              ELSE UNCHANGED <<heap, peers>>
         /\ connRet' =
              CASE outcome = "nostream" ->
                     ConnRet(dial.caller, dial.id, "nil", "errStream", "none")
                [] outcome = "nopeer" ->
                     ConnRet(dial.caller, dial.id, "nil", "errPeer", "closed")
                [] outcome = "ok" ->
                     ConnRet(dial.caller, dial.id, "nil", "nil", "open")
    /\ bsIdx' = IF dial.caller = "bootstrap" THEN bsIdx + 1 ELSE bsIdx
    /\ dial' = IdleDial
    /\ UNCHANGED <<reactor, addRet, cfgBootStrap, reachable, addrs, host, kdht,
                   startPc, startRet, acceptPc, passTodo, stopPc,
                   stopRange, hs, bc, sendRes>>

\* The rest of dialPeersAsync and connect's return: the stream fails to
\* open, or the Peer fails to build (the stream is closed and the identity
\* leaves the routing table), or the Peer is added and started.  connect
\* logs dialPeersAsync's error and returns nil in all three.
DialPeer ==
    /\ dial.pc = "stream"
    /\ \E outcome \in {"nostream", "nopeer", "ok"} :
         /\ outcome = "ok" => Len(heap) < MaxPeers
         /\ rt' = IF outcome = "nopeer" THEN rt \ {dial.id} ELSE rt
         /\ IF outcome = "ok"
              THEN /\ heap' = Append(heap, NewPeerObj(dial.id))
                   /\ peers' = Add(Len(heap) + 1, dial.id)
              ELSE UNCHANGED <<heap, peers>>
         /\ connRet' =
              CASE outcome = "nostream" ->
                     ConnRet(dial.caller, dial.id, "nil", "errStream", "none")
                [] outcome = "nopeer" ->
                     ConnRet(dial.caller, dial.id, "nil", "errPeer", "closed")
                [] outcome = "ok" ->
                     ConnRet(dial.caller, dial.id, "nil", "nil", "open")
    /\ bsIdx' = IF dial.caller = "bootstrap" THEN bsIdx + 1 ELSE bsIdx
    /\ dial' = IdleDial
    /\ UNCHANGED <<reactor, addRet, cfgBootStrap, reachable, addrs, host, kdht,
                   startPc, startRet, acceptPc, passTodo, stopPc,
                   stopRange, hs, bc, sendRes>>

\* ----------------------------------------------------------------- bootstrap
\* bootstrap hands a connect error back to Start instead of going on to
\* the next address (the mutant of BootstrapConnect).
BootstrapConnectFailFast ==
    /\ startPc = "bootstrap"
    /\ dial.pc = "idle"
    /\ bsIdx <= Len(cfgBootStrap)
    /\ ConnectBegin("bootstrap", cfgBootStrap[bsIdx])
    /\ IF cfgBootStrap[bsIdx][1] # "addr"
            \/ cfgBootStrap[bsIdx][2] \notin reachable
         THEN /\ startPc' = "done"
              /\ startRet' = "errConnect"
              /\ UNCHANGED bsIdx
         ELSE /\ bsIdx' = IF dial'.pc = "idle" THEN bsIdx + 1 ELSE bsIdx
              /\ UNCHANGED <<startPc, startRet>>
    /\ UNCHANGED <<reactor, addRet, cfgBootStrap, reachable, host, kdht,
                   peers, heap, acceptPc, passTodo, stopPc, stopRange, hs,
                   bc, sendRes>>

\* One iteration of bootstrap's loop over sw.cfg.BootStrap: a failed
\* connect is skipped.
BootstrapConnect ==
    /\ startPc = "bootstrap"
    /\ dial.pc = "idle"
    /\ bsIdx <= Len(cfgBootStrap)
    /\ ConnectBegin("bootstrap", cfgBootStrap[bsIdx])
    /\ bsIdx' = IF dial'.pc = "idle" THEN bsIdx + 1 ELSE bsIdx
    /\ UNCHANGED <<reactor, addRet, cfgBootStrap, reachable, host, kdht,
                   peers, heap, startPc, startRet, acceptPc,
                   passTodo, stopPc, stopRange, hs, bc, sendRes>>

\* The range loop over sw.cfg.BootStrap is exhausted: on to the check of
\* the routing table.
BootstrapLoopEnd ==
    /\ startPc = "bootstrap"
    /\ dial.pc = "idle"
    /\ bsIdx > Len(cfgBootStrap)
    /\ startPc' = "check"
    /\ UNCHANGED <<reactor, addRet, cfgBootStrap, reachable, addrs, host, kdht, rt,
                   peers, heap, startRet, bsIdx, dial, connRet, acceptPc,
                   passTodo, stopPc, stopRange, hs, bc, sendRes>>

\* The routing table is empty: goto retry.
BootstrapRetry ==
    /\ startPc' = "bootstrap"
    /\ bsIdx' = 1
    /\ UNCHANGED <<startRet, acceptPc>>

\* bootstrap returns nil; Start launches acceptRoutine and returns nil.
BootstrapReturn ==
    /\ startPc' = "done"
    /\ startRet' = "nil"
    /\ acceptPc' = "running"
    /\ UNCHANGED bsIdx

\* bootstrap returns at the end of the first pass whatever the routing
\* table lists (the mutant of BootstrapCheck).
BootstrapCheckNoRetry ==
    /\ startPc = "check"
    /\ BootstrapReturn
    /\ UNCHANGED <<reactor, addRet, cfgBootStrap, reachable, addrs, host, kdht, rt,
                   peers, heap, dial, connRet, passTodo, stopPc, stopRange,
                   hs, bc, sendRes>>

\* The end of a pass: the check of the routing table.
BootstrapCheck ==
    /\ startPc = "check"
    /\ IF rt = {} THEN BootstrapRetry ELSE BootstrapReturn
    /\ UNCHANGED <<reactor, addRet, cfgBootStrap, reachable, addrs, host, kdht, rt,
                   peers, heap, dial, connRet, passTodo, stopPc, stopRange,
                   hs, bc, sendRes>>

\* -------------------------------------------------------------- acceptRoutine
\* acceptRoutine waits in its select: no pass and no connect is under way.
InSelect == acceptPc = "running" /\ passTodo = {} /\ dial.pc = "idle"

\* case <-sw.timer.C: the routing table is listed for one pass.
AcceptTick ==
    /\ InSelect
    /\ passTodo' = rt
    /\ UNCHANGED <<reactor, addRet, cfgBootStrap, reachable, addrs, host, kdht, rt,
                   peers, heap, startPc, startRet, bsIdx, dial,
                   connRet, acceptPc, stopPc, stopRange, hs, bc, sendRes>>

\* genPeerMultiID: "" when the peerstore holds no address for the identity.
GenPeerMultiID(i) == IF i \in addrs THEN Addr(i) ELSE <<>>

\* The iteration without the look-up in PeerSet: connect whenever an address
\* is known (a mutant of AcceptVisit).
AcceptVisitNoFind(peerID) ==
    /\ acceptPc = "running"
    /\ dial.pc = "idle"
    /\ peerID \in passTodo
    /\ passTodo' = passTodo \ {peerID}
    /\ IF GenPeerMultiID(peerID) = <<>>
         THEN UNCHANGED <<dial, rt, connRet, addrs>>
         ELSE ConnectBegin("discovery", GenPeerMultiID(peerID))
    /\ UNCHANGED <<reactor, addRet, cfgBootStrap, reachable, host, kdht,
                   peers, heap, startPc, startRet, bsIdx, acceptPc,
                   stopPc, stopRange, hs, bc, sendRes>>

\* The iteration with `return` in the place of `continue` after a failed
\* connect: the pass and the loop end there (a mutant of AcceptVisit).
AcceptVisitReturnOnError(peerID) ==
    /\ acceptPc = "running"
    /\ dial.pc = "idle"
    /\ peerID \in passTodo
    /\ IF Find(peerID) # NoPeer \/ GenPeerMultiID(peerID) = <<>>
         THEN /\ passTodo' = passTodo \ {peerID}
              /\ UNCHANGED <<dial, rt, connRet, addrs, acceptPc>>
         ELSE /\ ConnectBegin("discovery", GenPeerMultiID(peerID))
              /\ IF peerID \notin reachable
                   THEN acceptPc' = "exited" /\ passTodo' = {}
                   ELSE /\ passTodo' = passTodo \ {peerID}
                        /\ UNCHANGED acceptPc
    /\ UNCHANGED <<reactor, addRet, cfgBootStrap, reachable, host, kdht,
                   peers, heap, startPc, startRet, bsIdx,
                   stopPc, stopRange, hs, bc, sendRes>>

\* One iteration of the pass, for listed identity peerID: skipped when
\* PeerSet has an entry or no address is known, else connect.
AcceptVisit(peerID) ==
    /\ acceptPc = "running"
    /\ dial.pc = "idle"
    /\ peerID \in passTodo
    /\ passTodo' = passTodo \ {peerID}
    /\ IF Find(peerID) # NoPeer \/ GenPeerMultiID(peerID) = <<>>
         THEN UNCHANGED <<dial, rt, connRet, addrs>>
         ELSE ConnectBegin("discovery", GenPeerMultiID(peerID))
    /\ UNCHANGED <<reactor, addRet, cfgBootStrap, reachable, host, kdht,
                   peers, heap, startPc, startRet, bsIdx, acceptPc,
                   stopPc, stopRange, hs, bc, sendRes>>

\* The peerstore forgets the address of an identity (its TTL runs out).
AddrExpires(i) ==
    /\ i \in addrs
    /\ addrs' = addrs \ {i}
    /\ UNCHANGED <<reactor, addRet, cfgBootStrap, reachable, host, kdht, rt,
                   peers, heap, startPc, startRet, bsIdx, dial, connRet,
                   acceptPc, passTodo, stopPc, stopRange, hs, bc, sendRes>>

\* The host of an identity stops accepting our host.Connect.
HostGoesDown(i) ==
    /\ i \in reachable
    /\ reachable' = reachable \ {i}
    /\ UNCHANGED <<reactor, addRet, cfgBootStrap, addrs, host, kdht, rt,
                   peers, heap, startPc, startRet, bsIdx, dial, connRet,
                   acceptPc, passTodo, stopPc, stopRange, hs, bc, sendRes>>

\* case <-sw.quit: the rendezvous with Stop's send; acceptRoutine returns
\* and Stop returns (its deferred timer.Stop runs).
AcceptQuit ==
    /\ InSelect
    /\ stopPc = "quit"
    /\ acceptPc' = "exited"
    /\ stopPc' = "done"
    /\ UNCHANGED <<reactor, addRet, cfgBootStrap, reachable, addrs, host, kdht, rt,
                   peers, heap, startPc, startRet, bsIdx, dial,
                   connRet, passTodo, stopRange, hs, bc, sendRes>>

\* ---------------------------------------------------------------------- Stop
\* Stop is called (running records whether Start had returned nil by
\* then); sw.peers.Range(f): the fan-out over the current entries begins.
StopBegin ==
    /\ stopPc = "idle"
    /\ stopPc' = "flush"
    /\ stopRange' = [running |-> startRet = "nil", snap |-> RangePeers,
                     todo |-> RangePeers]
    /\ UNCHANGED <<reactor, addRet, cfgBootStrap, reachable, addrs, host, kdht, rt,
                   peers, heap, startPc, startRet, bsIdx, dial,
                   connRet, acceptPc, passTodo, hs, bc, sendRes>>

\* f(peer) of the fan-out: peer.FlushStop().
StopFlush(p) ==
    /\ stopPc = "flush"
    /\ p \in stopRange.todo
    /\ heap' = FlushStop(heap, p)
    /\ stopRange' = [stopRange EXCEPT !.todo = @ \ {p}]
    /\ UNCHANGED <<reactor, addRet, cfgBootStrap, reachable, addrs, host, kdht, rt,
                   peers, startPc, startRet, bsIdx, dial, connRet,
                   acceptPc, passTodo, stopPc, hs, bc, sendRes>>

\* Stop goes on to the send on sw.quit without waiting for the fan-out
\* (the mutant of StopQuit).
StopQuitNoWait ==
    /\ stopPc = "flush"
    /\ stopPc' = "quit"
    /\ UNCHANGED <<reactor, addRet, cfgBootStrap, reachable, addrs, host, kdht, rt,
                   peers, heap, startPc, startRet, bsIdx, dial,
                   connRet, acceptPc, passTodo, stopRange, hs, bc, sendRes>>

\* <-rchan: the fan-out is complete; Stop blocks in sw.quit <- struct{}{}.
StopQuit ==
    /\ stopPc = "flush"
    /\ stopRange.todo = {}
    /\ stopPc' = "quit"
    /\ UNCHANGED <<reactor, addRet, cfgBootStrap, reachable, addrs, host, kdht, rt,
                   peers, heap, startPc, startRet, bsIdx, dial,
                   connRet, acceptPc, passTodo, stopRange, hs, bc, sendRes>>

\* -------------------------------------------------------------- handleStream
\* A remote identity opens a stream: handleStream's look at PeerSet.  A valid
\* entry ends the handler.
HandleStreamFind(h, i) ==
    /\ host
    /\ hs[h].pc = "idle"
    /\ h > 1 => hs[h - 1].pc # "idle"
    /\ IF Find(i) # NoPeer /\ Validate(Find(i))
         THEN hs' = [hs EXCEPT ![h] = [pc |-> "done", id |-> NoId]]
         ELSE hs' = [hs EXCEPT ![h] = [pc |-> "checked", id |-> i]]
    /\ UNCHANGED <<reactor, addRet, cfgBootStrap, reachable, addrs, host, kdht, rt,
                   peers, heap, startPc, startRet, bsIdx, dial,
                   connRet, acceptPc, passTodo, stopPc, stopRange, bc,
                   sendRes>>

\* The rest of handleStream: NewDefaultPeer fails and the handler returns,
\* or the Peer is added and started.
HandleStreamAdmit(h, built) ==
    /\ hs[h].pc = "checked"
    /\ built => Len(heap) < MaxPeers
    /\ IF built
         THEN /\ heap' = Append(heap, NewPeerObj(hs[h].id))
              /\ peers' = Add(Len(heap) + 1, hs[h].id)
         ELSE UNCHANGED <<heap, peers>>
    /\ hs' = [hs EXCEPT ![h] = [pc |-> "done", id |-> NoId]]
    /\ UNCHANGED <<reactor, addRet, cfgBootStrap, reachable, addrs, host, kdht, rt,
                   startPc, startRet, bsIdx, dial, connRet,
                   acceptPc, passTodo, stopPc, stopRange, bc, sendRes>>

\* The stream of a Peer stops being usable: Validate fails from now on.
StreamDies(p) ==
    /\ p \in 1..Len(heap)
    /\ heap[p].ok
    /\ heap' = [heap EXCEPT ![p].ok = FALSE]
    /\ UNCHANGED <<reactor, addRet, cfgBootStrap, reachable, addrs, host, kdht, rt,
                   peers, startPc, startRet, bsIdx, dial, connRet,
                   acceptPc, passTodo, stopPc, stopRange, hs, bc, sendRes>>

\* ----------------------------------------------------------------- Broadcast
\* sw.peers.Range(f): the fan-out of sends over the current entries begins.
BroadcastBegin(chID, msgBytes) ==
    /\ bc.pc \in {"idle", "done"}
    /\ bc' = [pc |-> "sending", ch |-> chID, msg |-> msgBytes,
              snap |-> RangePeers, todo |-> RangePeers, tried |-> {},
              failed |-> {}]
    /\ UNCHANGED <<reactor, addRet, cfgBootStrap, reachable, addrs, host, kdht, rt,
                   peers, heap, startPc, startRet, bsIdx, dial,
                   connRet, acceptPc, passTodo, stopPc, stopRange, hs,
                   sendRes>>

\* f(p) of the fan-out: p.Send(chID, msgBytes), which succeeds or not.
BroadcastSend(p, sent) ==
    /\ bc.pc = "sending"
    /\ p \in bc.todo
    /\ sent \in PeerSendResults(p)
    /\ bc' = [bc EXCEPT !.todo = @ \ {p},
                        !.tried = @ \cup {p},
                        !.failed = IF sent THEN @ ELSE @ \cup {p}]
    /\ UNCHANGED <<reactor, addRet, cfgBootStrap, reachable, addrs, host, kdht, rt,
                   peers, heap, startPc, startRet, bsIdx, dial,
                   connRet, acceptPc, passTodo, stopPc, stopRange, hs,
                   sendRes>>

\* Broadcast returns without the receive from the channel (the mutant of
\* BroadcastReturn).
BroadcastReturnNoWait ==
    /\ bc.pc = "sending"
    /\ bc' = [bc EXCEPT !.pc = "done"]
    /\ UNCHANGED <<reactor, addRet, cfgBootStrap, reachable, addrs, host, kdht, rt,
                   peers, heap, startPc, startRet, bsIdx, dial,
                   connRet, acceptPc, passTodo, stopPc, stopRange, hs,
                   sendRes>>

\* <-ch: the fan-out is complete and Broadcast returns.
BroadcastReturn ==
    /\ bc.pc = "sending"
    /\ bc.todo = {}
    /\ bc' = [bc EXCEPT !.pc = "done"]
    /\ UNCHANGED <<reactor, addRet, cfgBootStrap, reachable, addrs, host, kdht, rt,
                   peers, heap, startPc, startRet, bsIdx, dial,
                   connRet, acceptPc, passTodo, stopPc, stopRange, hs,
                   sendRes>>

\* ---------------------------------------------------------------------- Send
\* Send answers nil whatever the per-peer send reports (the mutant of Send).
SendIgnoringResult(pr, chID, msgBytes, sent) ==
    LET id == Decode(pr)
        p == Find(id)
    IN  /\ IF p = NoPeer
             THEN /\ sent = FALSE
                  /\ sendRes' = [pr |-> pr, ch |-> chID, msg |-> msgBytes,
                                 calls |-> {}, ret |-> "notfound"]
             ELSE /\ sent \in PeerSendResults(p)
                  /\ sendRes' = [pr |-> pr, ch |-> chID, msg |-> msgBytes,
                                 calls |-> {[p |-> p, ch |-> chID,
                                             msg |-> msgBytes, sent |-> sent]},
                                 ret |-> "nil"]
        /\ UNCHANGED <<reactor, addRet, cfgBootStrap, reachable, addrs, host, kdht,
                       rt, peers, heap, startPc, startRet, bsIdx, dial, connRet, acceptPc, passTodo, stopPc, stopRange,
                       hs, bc>>

\* Send(pr, chID, msgBytes): a decode failure is logged only and the look-up
\* goes on with the zero identity; calls holds the per-peer sends made and
\* what each reported.
Send(pr, chID, msgBytes, sent) ==
    LET id == Decode(pr)
        p == Find(id)
    IN  /\ IF p = NoPeer
             THEN /\ sent = FALSE
                  /\ sendRes' = [pr |-> pr, ch |-> chID, msg |-> msgBytes,
                                 calls |-> {}, ret |-> "notfound"]
             ELSE /\ sent \in PeerSendResults(p)
                  /\ sendRes' = [pr |-> pr, ch |-> chID, msg |-> msgBytes,
                                 calls |-> {[p |-> p, ch |-> chID,
                                             msg |-> msgBytes, sent |-> sent]},
                                 ret |-> IF sent THEN "nil" ELSE "err"]
        /\ UNCHANGED <<reactor, addRet, cfgBootStrap, reachable, addrs, host, kdht,
                       rt, peers, heap, startPc, startRet, bsIdx, dial, connRet, acceptPc, passTodo, stopPc, stopRange,
                       hs, bc>>

\* ---------------------------------------------------------------------- Next
\* The life of the Switch: Start, bootstrap, discovery, admission, Stop.
Next ==
    \/ StartKeyFail
    \/ StartHostFail
    \/ StartHostUp
    \/ StartDhtFail
    \/ StartKdhtBootstrapFail
    \/ StartDhtUp
    \/ BootstrapConnect
    \/ BootstrapLoopEnd
    \/ BootstrapCheck
    \/ DialPeer
    \/ AcceptTick
    \/ \E peerID \in Ids : AcceptVisit(peerID)
    \/ AcceptQuit
    \/ StopBegin
    \/ \E p \in Handles : StopFlush(p)
    \/ StopQuit
    \/ \E h \in 1..MaxInbound, i \in Ids : HandleStreamFind(h, i)
    \/ \E h \in 1..MaxInbound, built \in BOOLEAN : HandleStreamAdmit(h, built)
    \/ \E p \in Handles : StreamDies(p)

Spec == Init /\ [][Next]_vars

\* The Start call keeps running: its goroutine is scheduled.
FairSpec ==
    /\ Spec
    /\ WF_vars(BootstrapConnect)
    /\ WF_vars(BootstrapLoopEnd)
    /\ WF_vars(BootstrapCheck)
    /\ WF_vars(DialPeer)

\* A Switch configured with no bootstrap address and no reachable identity.
InitAlone == Init /\ cfgBootStrap = <<>> /\ reachable = {}

\* Registration of reactors around Start.
NextReactor ==
    \/ \E mo \in Modules, f \in Reactors : AddReactor(mo, f)
    \/ StartKeyFail
    \/ StartHostFail
    \/ StartHostUp
    \/ StartDhtFail
    \/ StartKdhtBootstrapFail
    \/ StartDhtUp
    \/ BootstrapConnect
    \/ BootstrapLoopEnd
    \/ BootstrapCheck
    \/ DialPeer

SpecReactor == Init /\ [][NextReactor]_vars

\* The scenario of a Switch alone: reactors are registered, Start is
\* called and Broadcast is called with no Peer.
NextAlone ==
    \/ \E mo \in Modules, f \in Reactors : AddReactor(mo, f)
    \/ StartHostUp
    \/ StartDhtUp
    \/ BootstrapLoopEnd
    \/ BootstrapCheck
    \/ \E chID \in Channels, msgBytes \in Msgs : BroadcastBegin(chID, msgBytes)
    \/ BroadcastReturn

\* The goroutine that called Start keeps being scheduled.
FairSpecAlone ==
    /\ InitAlone /\ [][NextAlone]_vars
    /\ WF_vars(StartHostUp)
    /\ WF_vars(StartDhtUp)
    /\ WF_vars(BootstrapLoopEnd)
    /\ WF_vars(BootstrapCheck)

\* Send and Broadcast over the Peers that inbound streams admit, streams
\* dying in between.
NextMsg ==
    \/ StartHostUp
    \/ \E h \in 1..MaxInbound, i \in Ids : HandleStreamFind(h, i)
    \/ \E h \in 1..MaxInbound, built \in BOOLEAN : HandleStreamAdmit(h, built)
    \/ \E p \in Handles : StreamDies(p)
    \/ \E chID \in Channels, msgBytes \in Msgs : BroadcastBegin(chID, msgBytes)
    \/ \E p \in Handles, sent \in BOOLEAN : BroadcastSend(p, sent)
    \/ BroadcastReturn
    \/ \E pr \in Ids \cup {NoId}, chID \in Channels, msgBytes \in Msgs,
          sent \in BOOLEAN : Send(pr, chID, msgBytes, sent)

SpecMsg == InitAlone /\ [][NextMsg]_vars

\* Outbound connections: bootstrap, then the discovery loop, while
\* addresses expire, hosts go down and streams die.
NextDisc ==
    \/ StartHostUp
    \/ StartDhtUp
    \/ BootstrapConnect
    \/ BootstrapLoopEnd
    \/ BootstrapCheck
    \/ DialPeer
    \/ AcceptTick
    \/ \E peerID \in Ids : AcceptVisit(peerID)
    \/ \E i \in Ids : AddrExpires(i)
    \/ \E i \in Ids : HostGoesDown(i)
    \/ \E p \in Handles : StreamDies(p)

SpecDisc == Init /\ [][NextDisc]_vars

\* The ticker keeps firing and the goroutines of Start and of acceptRoutine
\* keep being scheduled.
FairSpecDisc ==
    /\ SpecDisc
    /\ WF_vars(BootstrapConnect)
    /\ WF_vars(BootstrapLoopEnd)
    /\ WF_vars(BootstrapCheck)
    /\ WF_vars(DialPeer)
    /\ WF_vars(AcceptTick)
    /\ WF_vars(\E peerID \in Ids : AcceptVisit(peerID))

\* Start and Stop without inbound streams: Start with its failures,
\* bootstrap, the discovery loop and a Stop call.
NextStop ==
    \/ StartKeyFail
    \/ StartHostFail
    \/ StartHostUp
    \/ StartDhtFail
    \/ StartKdhtBootstrapFail
    \/ StartDhtUp
    \/ BootstrapConnect
    \/ BootstrapLoopEnd
    \/ BootstrapCheck
    \/ DialPeer
    \/ AcceptTick
    \/ \E peerID \in Ids : AcceptVisit(peerID)
    \/ AcceptQuit
    \/ StopBegin
    \/ \E p \in Handles : StopFlush(p)
    \/ StopQuit

\* The goroutines that exist keep being scheduled: each FlushStop of Stop's
\* fan-out returns, Stop goes on, the calls of connect return, a discovery
\* pass goes on to its end, and the select of acceptRoutine takes the quit
\* signal when Stop offers it again and again (the ticks are seconds apart).
FairSpecStop ==
    /\ Init /\ [][NextStop]_vars
    /\ WF_vars(\E p \in Handles : StopFlush(p))
    /\ WF_vars(StopQuit)
    /\ WF_vars(DialPeer)
    /\ WF_vars(\E peerID \in Ids : AcceptVisit(peerID))
    /\ SF_vars(AcceptQuit)

\* ==================================================================== claims
\* The Peer objects of identity i that are started, not flushed, and whose
\* stream is usable.
LivePeers(i) ==
    {p \in 1..Len(heap) :
        heap[p].id = i /\ heap[p].state = "running" /\ heap[p].ok}

\* C1 (admission uniqueness): whatever the interleaving of inbound and
\* outbound admissions, at no instant are there two added-and-started valid
\* Peers for one identity: of two near-simultaneous inbound connections
\* from one identity exactly one survives.
C1_AdmissionUniqueness == \A i \in Ids : Cardinality(LivePeers(i)) <= 1

\* C2 (shutdown completeness): at the step where a Stop called on a running
\* Switch returns, every entry of PeerSet has been flushed and acceptRoutine
\* has exited.
C2_ShutdownComplete ==
    [][(stopPc # "done" /\ stopPc' = "done" /\ stopRange.running) =>
         /\ acceptPc' = "exited"
         /\ \A i \in Ids :
              peers'[i] # NoPeer => heap'[peers'[i]].state = "stopped"]_vars

\* C3 (start with an empty bootstrap list): with a reactor registered and
\* key, host and DHT construction succeeding, Start on a Switch with no
\* bootstrap address eventually returns nil.
C3_EmptyBootstrapStarts ==
    (/\ cfgBootStrap = <<>>
     /\ \E m \in Modules : reactor[m] # NoReactor
     /\ startPc = "bootstrap") ~> (startRet = "nil")

\* C4 (send targeting): a Send call invokes the per-peer send, with its
\* channel and payload, on the PeerSet entry of the identity it names and on
\* no other Peer, and returns nil or an error as that send reports; with no
\* entry for the identity it invokes no send and returns peer-not-found.
C4_SendTargeting ==
    [][sendRes' # sendRes =>
         LET r == sendRes' IN
         IF r.pr \in Ids /\ peers[r.pr] # NoPeer
           THEN /\ \E sent \in BOOLEAN :
                     /\ r.calls = {[p |-> peers[r.pr], ch |-> r.ch,
                                    msg |-> r.msg, sent |-> sent]}
                     /\ r.ret = IF sent THEN "nil" ELSE "err"
           ELSE /\ r.calls = {}
                /\ r.ret = "notfound"]_vars

\* A Send reached a Peer while PeerSet held another identity's Peer too,
\* and the per-peer send failed.
C4_Witness ==
    /\ sendRes.ret = "err"
    /\ \A i \in Ids : peers[i] # NoPeer
    /\ \E c \in sendRes.calls : c.p = peers[sendRes.pr] /\ c.ch = 2

C6_DuplicateRejected ==
    /\ [][addRet' # addRet =>
            LET c == addRet' IN
            IF reactor[c.mo] # NoReactor
              THEN c.ret = "err" /\ reactor' = reactor
              ELSE c.ret = "nil" /\ reactor' = [reactor EXCEPT ![c.mo] = c.f]
         ]_vars
    /\ [][\A m \in Modules :
            reactor[m] # NoReactor => reactor'[m] = reactor[m]]_vars

\* A second registration for a module, with another reactor, was refused
\* and the first is still recorded.
C6_Witness ==
    /\ addRet.ret = "err"
    /\ reactor[addRet.mo] \in Reactors \ {addRet.f}

StartErrors == {"errKey", "errHost", "errDht", "errKdhtBootstrap"}

\* C7 (Start error outcomes): Start returns an error only for a failed key
\* decoding, host construction, DHT construction or DHT bootstrap call, and
\* then it has made no connection attempt, launched no discovery loop and
\* its returning step leaves PeerSet as it was; a Start that has made
\* connection attempts, whatever their failures, returned nil.
C7_StartErrorOutcomes ==
    /\ [](startRet \in StartErrors \cup {"none", "nil"})
    /\ [](startRet \in StartErrors =>
            /\ acceptPc = "idle"
            /\ connRet = NoConn
            /\ dial = IdleDial)
    /\ [][(startPc # "done" /\ startPc' = "done" /\ startRet' # "nil") =>
            peers' = peers /\ heap' = heap]_vars
    /\ [](startPc = "done" /\ connRet # NoConn => startRet = "nil")

\* DHT construction failed after the host was up, and Start returned the
\* error.
C7_Witness == startRet = "errDht" /\ host /\ ~kdht /\ startPc = "done"

\* C8 (no replacement of a healthy connection): while PeerSet holds a valid
\* Peer for an identity, no step of an admission, interleaved or not,
\* constructs a Peer for that identity or changes its entry.
C8_NoReplacement ==
    [][\A i \in Ids :
         (peers[i] # NoPeer /\ heap[peers[i]].ok) =>
            /\ peers'[i] = peers[i]
            /\ \A p \in (Len(heap) + 1)..Len(heap') : heap'[p].id # i]_vars

\* C9 (Stop ordering): Stop is past its wait for the fan-out only when
\* FlushStop has run on every Peer the fan-out visits, so the quit signal is
\* sent only then; and Stop has returned only when acceptRoutine has taken
\* the quit signal.
C9_StopOrdering ==
    /\ stopPc \in {"quit", "done"} =>
          /\ stopRange.todo = {}
          /\ \A p \in stopRange.snap : heap[p].state = "stopped"
    /\ stopPc = "done" => acceptPc = "exited"

\* Stop returned after flushing two Peers.
C9_Witness == stopPc = "done" /\ Cardinality(stopRange.snap) = 2

\* The identities the configured bootstrap addresses name.
BootStrapIds ==
    {cfgBootStrap[k][2] : k \in {j \in 1..Len(cfgBootStrap) :
                                     cfgBootStrap[j][1] = "addr"}}

\* C10 (bootstrap retry): bootstrap returns nil only from a state where the
\* routing table lists a peer; at the end of a pass with an empty routing
\* table the next step of bootstrap starts the pass over the list again;
\* with no reachable bootstrap identity Start does not return.
C10_BootstrapRetry ==
    /\ [][(startPc # "done" /\ startPc' = "done" /\ startRet' = "nil")
            => (startPc = "check" /\ rt # {})]_vars
    /\ [][(startPc = "check" /\ rt = {} /\ startPc' # startPc)
            => (startPc' = "bootstrap" /\ bsIdx' = 1)]_vars
    /\ [](BootStrapIds \cap reachable = {}
            /\ startPc \in {"bootstrap", "check"} => rt = {})
    /\ [](BootStrapIds \cap reachable = {} => startRet # "nil")

\* A pass over a list of two addresses was made, its connects failed, and
\* the list is being gone over again.
C10_Witness ==
    /\ startPc = "bootstrap"
    /\ bsIdx = 1
    /\ cfgBootStrap = <<Addr(1), Addr(2)>>
    /\ connRet = ConnRet("bootstrap", 2, "err", "none", "none")

\* C11 (discovery tick): a tick lists the routing table for one pass; the
\* iteration for a listed identity attempts a connect to it if PeerSet has
\* no entry for it and the peerstore knows an address, and else leaves
\* PeerSet, the routing table and the connect state as they were; no
\* connect of the discovery loop begins otherwise.
C11_DiscoveryTick ==
    /\ [][(passTodo = {} /\ passTodo' # {}) => passTodo' = rt]_vars
    /\ [][\A i \in Ids :
            (i \in passTodo /\ i \notin passTodo') =>
               IF peers[i] = NoPeer /\ i \in addrs
                 THEN \/ dial' = [pc |-> "stream", id |-> i,
                                  caller |-> "discovery"]
                      \/ /\ connRet'.caller = "discovery"
                         /\ connRet'.id = i
                         /\ connRet'.ret \in {"err", "nil"}
                         /\ connRet'.dialed \in {"none", "nil"}
                 ELSE UNCHANGED <<peers, heap, dial, rt, connRet, addrs>>
         ]_vars
    /\ [][(dial.pc = "idle" /\ acceptPc = "running"
            /\ (dial' # dial \/ connRet' # connRet)) =>
               \E i \in passTodo \ passTodo' :
                  /\ peers[i] = NoPeer
                  /\ i \in addrs
                  /\ i \in {dial'.id, connRet'.id}]_vars

\* In one pass an identity with no known address was passed over and a
\* connect to the other, which has no entry in PeerSet, is under way.
C11_Witness ==
    /\ dial = [pc |-> "stream", id |-> dial.id, caller |-> "discovery"]
    /\ passTodo = {}
    /\ \E j \in rt \ {dial.id} : j \notin addrs /\ peers[j] = NoPeer

\* A connect call that failed for its candidate: itself, or its
\* dialPeersAsync call.
ConnectFailed(c) == c.ret = "err" \/ c.dialed \in {"errStream", "errPeer"}

\* C12 (per-candidate failure isolation): a connect that fails for a
\* bootstrap candidate leaves bootstrap in its pass, at the next candidate
\* of the list; a connect that fails for a candidate of a discovery tick
\* leaves the discovery loop running with every other candidate of the
\* pass still to be visited; the discovery loop never exits on a failure.
C12_FailureIsolation ==
    /\ [][(connRet' # connRet /\ ConnectFailed(connRet')
            /\ connRet'.caller = "bootstrap") =>
               /\ startPc' = "bootstrap"
               /\ bsIdx <= Len(cfgBootStrap)
               /\ bsIdx' = bsIdx + 1]_vars
    /\ [][(connRet' # connRet /\ ConnectFailed(connRet')
            /\ connRet'.caller = "discovery") =>
               /\ acceptPc' = "running"
               /\ passTodo \ {connRet'.id} \subseteq passTodo']_vars
    /\ [][(acceptPc = "running" /\ acceptPc' # "running") =>
               stopPc = "quit"]_vars

\* In one discovery pass the connect to identity 1 failed at host.Connect
\* and the connect to identity 2 is under way.
C12_Witness ==
    /\ connRet = ConnRet("discovery", 1, "err", "none", "none")
    /\ dial = [pc |-> "stream", id |-> 2, caller |-> "discovery"]
    /\ acceptPc = "running"

\* C13 (peer destroyed on send failure): once a Send call has returned the
\* error of a failed per-peer send, and once a Broadcast has returned,
\* every Peer whose send failed has been flushed (FlushStop).
C13_FlushedOnSendFailure ==
    /\ sendRes.ret = "err" =>
          \A c \in sendRes.calls : heap[c.p].state = "stopped"
    /\ bc.pc = "done" => \A p \in bc.failed : heap[p].state = "stopped"

\* C14 (outbound construction failure): the step that ends dialPeersAsync
\* after the look-up is one of three.  The stream failed to open: an error
\* is returned, PeerSet and the routing table are as before.  The Peer
\* failed to build: the stream is closed, the identity has left the routing
\* table, no Peer was added, an error is returned.  Else a Peer for the
\* identity was built and added and nil is returned.
C14_OutboundFailure ==
    [][(dial.pc = "stream" /\ dial'.pc = "idle") =>
         LET c == connRet' IN
         /\ c.id = dial.id
         /\ \/ /\ c.dialed = "errStream" /\ c.stream = "none"
               /\ rt' = rt /\ peers' = peers /\ heap' = heap
            \/ /\ c.dialed = "errPeer" /\ c.stream = "closed"
               /\ rt' = rt \ {dial.id} /\ dial.id \in rt
               /\ peers' = peers /\ heap' = heap
            \/ /\ c.dialed = "nil" /\ c.stream = "open"
               /\ rt' = rt
               /\ heap' = Append(heap, NewPeerObj(dial.id))
               /\ peers' = [peers EXCEPT ![dial.id] = Len(heap')]]_vars

\* Peer construction failed for an identity the discovery loop dialled: it
\* is out of the routing table and has no entry in PeerSet.
C14_Witness ==
    /\ connRet = ConnRet("discovery", connRet.id, "nil", "errPeer", "closed")
    /\ connRet.id \notin rt
    /\ peers[connRet.id] = NoPeer

\* C15 (ReactorTable read-only after Start): once Start has been called, no
\* step changes the ReactorTable while a started Peer, which shares the
\* table with the Switch, reads it.
C15_ReadOnlyAfterStart ==
    [][(/\ startPc # "idle"
        /\ \E p \in 1..Len(heap) : heap[p].state = "running") =>
          reactor' = reactor]_vars

\* C16 (peer ownership): every Peer that has been started and not flushed
\* is the entry of PeerSet for its identity.
C16_PeerOwnership ==
    \A p \in 1..Len(heap) :
       heap[p].state = "running" => peers[heap[p].id] = p

\* C17 (Stop always returns): a Stop call made on a Switch that was never
\* started, or whose Start has returned (nil or an error), eventually
\* returns, unless Start is called or under way in the meantime.
C17_StopReturns ==
    (stopPc = "flush" /\ startPc \in {"idle", "done"})
       ~> (stopPc = "done" \/ startPc \notin {"idle", "done"})

\* C18 (discovery-driven reconnection): when the discovery loop runs and
\* the PeerSet entry of an identity is invalid, then eventually PeerSet
\* holds a valid Peer for the identity, unless the identity leaves the
\* routing table, its address is forgotten or it stops being reachable.
C18_Reconnection ==
    \A i \in Ids :
       (acceptPc = "running" /\ peers[i] # NoPeer /\ ~heap[peers[i]].ok)
          ~> \/ peers[i] # NoPeer /\ heap[peers[i]].ok
             \/ i \notin rt
             \/ i \notin addrs
             \/ i \notin reachable

\* C19 (connect success implies admission): at every step where a connect
\* call returns nil, from bootstrap or from the discovery loop, PeerSet
\* holds a Peer for the identity the address names.
C19_ConnectNilAdmits ==
    [][(connRet' # connRet /\ connRet'.ret = "nil") =>
          peers'[connRet'.id] # NoPeer]_vars

\* C20 (Send with an undecodable identity): a Send call whose identity
\* string does not decode has invoked no Peer's send and has returned an
\* error, whatever PeerSet holds.
C20_SendUndecodable ==
    (sendRes.pr \notin Ids /\ sendRes.ret # "none") =>
        /\ sendRes.calls = {}
        /\ sendRes.ret = "notfound"

\* Send was called with an undecodable identity while PeerSet held a usable
\* Peer for every identity.
C20_Witness ==
    /\ sendRes.pr \notin Ids
    /\ sendRes.ret = "notfound"
    /\ \A i \in Ids : peers[i] # NoPeer /\ heap[peers[i]].ok

====
